---- MODULE Spec2Model ----
(***************************************************************************)
(* Model of docs/homepage/src/main.rs: a Dioxus application whose root     *)
(* mounts Router::<Route>, whose only route "/" renders the Home           *)
(* component.  Home owns one signal `count` (an i32, initial value 0),     *)
(* renders the heading "High-Five counter: {count}" and two buttons whose  *)
(* onclick handlers run `count += 1` and `count -= 1`.                     *)
(*                                                                         *)
(* Every piece of state is indexed by a running copy of the application    *)
(* (each holds one Home component instance when its route is shown).       *)
(*                                                                         *)
(* Spec starts every copy freshly launched.  The counter reaches the ends  *)
(* of the i32 range only after 2^31 clicks, so LongRunSpec starts one copy *)
(* in a state such a run of clicks leaves: the counter EdgeGap away from   *)
(* i32::MAX or i32::MIN, rendered, with the clicks that led there counted  *)
(* in base.  FairSpec adds that the event loop runs scheduled re-renders.  *)
(***************************************************************************)
EXTENDS Integers, Sequences, FiniteSets, TLC

VARIABLES
    started,        \* the copies of the application that were started
    overflowChecks, \* build profile: TRUE = `+`/`-` panic on overflow (dev), FALSE = wrap (release)
    status,         \* status[i]: "running", "panicked" (a handler panicked) or "exited"
    mounted,        \* mounted[i]: a Home component instance is mounted
    count,          \* count[i]: the value of the signal `count` (line 21)
    dirty,          \* dirty[i]: the signal was written, a re-render of Home is scheduled
    heading,        \* heading[i]: the text of h1 as last rendered (line 24), <<>> when not shown
    path,           \* path[i]: the path of the last navigation request
    resolved,       \* resolved[i]: what that path parsed to (lines 13-17)
    base,           \* history: net clicks of this mount handled before the modelled window
    ups,            \* history: "Up high!" clicks of this mount inside the window
    downs,          \* history: "Down low!" clicks of this mount inside the window
    phase,          \* history: "ups" (only Up so far), "downs" (Ups then Downs), "mixed"
    remounted       \* history: this mount replaced an instance dropped with a nonzero counter

vars == <<started, overflowChecks, status, mounted, count, dirty, heading, path, resolved,
          base, ups, downs, phase, remounted>>

component == <<mounted, count, dirty, heading>>
history == <<base, ups, downs, phase, remounted>>

----------------------------------------------------------------------------
(* Bounds of the model. *)

\* clicks handled per mount inside the modelled window
MaxClicks == 3

\* how far from the ends of the i32 range a long-running counter starts
EdgeGap == 1

\* the running copies of the application
Instances == {1, 2}

\* navigation requests
Paths == {"/", "/about", "/a/b"}

----------------------------------------------------------------------------
(* The counter's type: `use_signal(|| 0)` with `count += 1` infers i32. *)

I32Max == 2147483647
I32Min == -I32Max - 1

\* faulty variant: the increment saturates at i32::MAX
SaturatingInc(c) == IF c = I32Max THEN I32Max ELSE c + 1

\* `*v + 1` on i32 in a build without overflow checks (two's complement wrap)
WrappingInc(c) == IF c = I32Max THEN I32Min ELSE c + 1

\* `*v - 1` on i32 in a build without overflow checks
WrappingDec(c) == IF c = I32Min THEN I32Max ELSE c - 1

----------------------------------------------------------------------------
(* Formatting of "{count}": Display for i32, decimal, '-' for negatives. *)

DigitChar(d) == <<"0", "1", "2", "3", "4", "5", "6", "7", "8", "9">>[d + 1]

DigitValue(ch) == CHOOSE d \in 0..9 : DigitChar(d) = ch

RECURSIVE DigitsNonNeg(_)
DigitsNonNeg(n) ==
    IF n < 10 THEN <<DigitChar(n)>>
    ELSE DigitsNonNeg(n \div 10) \o <<DigitChar(n % 10)>>

\* the digits of |n| for n <= 0, computed without negating n (|I32Min| is no i32)
RECURSIVE DigitsNonPos(_)
DigitsNonPos(n) ==
    LET d == (10 - (n % 10)) % 10
    IN  IF n > -10 THEN <<DigitChar(d)>>
        ELSE DigitsNonPos((n + d) \div 10) \o <<DigitChar(d)>>

\* faulty variant: the sign is dropped
FmtUnsigned(n) == IF n < 0 THEN DigitsNonPos(n) ELSE DigitsNonNeg(n)

FmtI32(n) == IF n < 0 THEN <<"-">> \o DigitsNonPos(n) ELSE DigitsNonNeg(n)

\* h1 { "High-Five counter: {count}" }: the literal segment, then the digits
RenderHeading(c) == <<"High-Five counter: ">> \o FmtI32(c)

----------------------------------------------------------------------------
(* Reading the heading back: the integer a reader sees after the label. *)

RECURSIVE ParseDigits(_, _, _)
\* folds the digit characters of s onto acc, adding (sign = 1) or subtracting (sign = -1)
ParseDigits(s, acc, sign) ==
    IF s = <<>> THEN acc
    ELSE ParseDigits(Tail(s), acc * 10 + sign * DigitValue(Head(s)), sign)

ParseI32(s) ==
    IF Head(s) = "-" THEN ParseDigits(Tail(s), 0, -1) ELSE ParseDigits(s, 0, 1)

\* the value shown in the heading of instance i
Shown(i) == ParseI32(Tail(heading[i]))

----------------------------------------------------------------------------
(* Route: #[derive(Routable)] enum Route { #[route("/")] Home {} }. *)

RouteHome == "Home"
NoMatch == "NoMatch"

\* faulty variant: a catch-all route
FromStrCatchAll(p) == RouteHome

\* Route::from_str: the one declared route matches the path "/", nothing else does
FromStr(p) == IF p = "/" THEN RouteHome ELSE NoMatch

----------------------------------------------------------------------------
(* The signal's arithmetic: `count += 1` is `*v = *v + 1` on the i32. *)

Value(v) == [panic |-> FALSE, value |-> v]
Panic(v) == [panic |-> TRUE, value |-> v]

\* faulty variant: `count = count.saturating_add(1)`
AddAssignSaturating(c, checks) ==
    Value(IF c = I32Max THEN I32Max ELSE c + 1)

\* `count += 1`
AddAssign(c, checks) ==
    IF c = I32Max /\ checks THEN Panic(c) ELSE Value(WrappingInc(c))

\* faulty variant: the second button's handler copied from the first, `count += 1`
SubAssignAsAdd(c, checks) == AddAssign(c, checks)

\* `count -= 1`
SubAssign(c, checks) ==
    IF c = I32Min /\ checks THEN Panic(c) ELSE Value(WrappingDec(c))

----------------------------------------------------------------------------
(* The Home component. *)

\* faulty variant: `use_signal(|| 1)`
MountHomeAtOne(i) ==
    /\ mounted' = [mounted EXCEPT ![i] = TRUE]
    /\ count' = [count EXCEPT ![i] = 1]
    /\ dirty' = [dirty EXCEPT ![i] = FALSE]
    /\ heading' = [heading EXCEPT ![i] = RenderHeading(count'[i])]
    /\ base' = [base EXCEPT ![i] = 0]
    /\ ups' = [ups EXCEPT ![i] = 0]
    /\ downs' = [downs EXCEPT ![i] = 0]
    /\ phase' = [phase EXCEPT ![i] = "ups"]
    /\ remounted' = [remounted EXCEPT ![i] = ~mounted[i] /\ count[i] # 0]

\* faulty variant: the counter is kept outside the component and survives it
MountHomeKeeping(i) ==
    /\ mounted' = [mounted EXCEPT ![i] = TRUE]
    /\ count' = count
    /\ dirty' = [dirty EXCEPT ![i] = FALSE]
    /\ heading' = [heading EXCEPT ![i] = RenderHeading(count'[i])]
    /\ base' = [base EXCEPT ![i] = 0]
    /\ ups' = [ups EXCEPT ![i] = 0]
    /\ downs' = [downs EXCEPT ![i] = 0]
    /\ phase' = [phase EXCEPT ![i] = "ups"]
    /\ remounted' = [remounted EXCEPT ![i] = ~mounted[i] /\ count[i] # 0]

\* first run of Home(): use_signal(|| 0) creates the signal, rsx! renders it
MountHome(i) ==
    /\ mounted' = [mounted EXCEPT ![i] = TRUE]
    /\ count' = [count EXCEPT ![i] = 0]
    /\ dirty' = [dirty EXCEPT ![i] = FALSE]
    /\ heading' = [heading EXCEPT ![i] = RenderHeading(count'[i])]
    /\ base' = [base EXCEPT ![i] = 0]
    /\ ups' = [ups EXCEPT ![i] = 0]
    /\ downs' = [downs EXCEPT ![i] = 0]
    /\ phase' = [phase EXCEPT ![i] = "ups"]
    /\ remounted' = [remounted EXCEPT ![i] = ~mounted[i] /\ count[i] # 0]

\* the component's scope is dropped: nothing is shown, the signal is gone
\* (count[i] keeps the dropped signal's last value, which nothing reads)
UnmountHome(i) ==
    /\ mounted' = [mounted EXCEPT ![i] = FALSE]
    /\ dirty' = [dirty EXCEPT ![i] = FALSE]
    /\ heading' = [heading EXCEPT ![i] = <<>>]
    /\ base' = [base EXCEPT ![i] = 0]
    /\ ups' = [ups EXCEPT ![i] = 0]
    /\ downs' = [downs EXCEPT ![i] = 0]
    /\ phase' = [phase EXCEPT ![i] = "ups"]
    /\ remounted' = [remounted EXCEPT ![i] = FALSE]
    /\ UNCHANGED count

\* faulty variant: the value is written without scheduling a re-render
WrittenSilently(i, r) ==
    IF r.panic
    THEN /\ status' = [status EXCEPT ![i] = "panicked"]
         /\ UNCHANGED <<count, dirty>>
    ELSE /\ count' = [count EXCEPT ![i] = r.value]
         /\ UNCHANGED <<status, dirty>>

\* faulty variant: one global signal shared by every Home
WrittenShared(i, r) ==
    IF r.panic
    THEN /\ status' = [status EXCEPT ![i] = "panicked"]
         /\ UNCHANGED <<count, dirty>>
    ELSE /\ count' = [j \in Instances |-> r.value]
         /\ dirty' = [j \in Instances |-> mounted[j]]
         /\ UNCHANGED status

\* what a handler's arithmetic result r does to the component
Written(i, r) ==
    IF r.panic
    THEN /\ status' = [status EXCEPT ![i] = "panicked"]
         /\ UNCHANGED <<count, dirty>>
    ELSE /\ count' = [count EXCEPT ![i] = r.value]
         /\ dirty' = [dirty EXCEPT ![i] = TRUE]
         /\ UNCHANGED status

\* button { onclick: move |_| count += 1, "Up high!" }
ClickUp(i) ==
    /\ status[i] = "running" /\ mounted[i]
    /\ ups[i] + downs[i] < MaxClicks
    /\ Written(i, AddAssign(count[i], overflowChecks))
    /\ ups' = [ups EXCEPT ![i] = @ + 1]
    /\ phase' = [phase EXCEPT ![i] = IF @ = "ups" THEN "ups" ELSE "mixed"]
    /\ UNCHANGED <<started, overflowChecks, mounted, heading, path, resolved, base, downs,
                   remounted>>

\* button { onclick: move |_| count -= 1, "Down low!" }
ClickDown(i) ==
    /\ status[i] = "running" /\ mounted[i]
    /\ ups[i] + downs[i] < MaxClicks
    /\ Written(i, SubAssign(count[i], overflowChecks))
    /\ downs' = [downs EXCEPT ![i] = @ + 1]
    /\ phase' = [phase EXCEPT ![i] = IF @ = "mixed" THEN "mixed" ELSE "downs"]
    /\ UNCHANGED <<started, overflowChecks, mounted, heading, path, resolved, base, ups,
                   remounted>>

\* faulty variant: the counter is a plain local, initialised again by every run of Home()
RenderResetting(i) ==
    /\ status[i] = "running" /\ mounted[i] /\ dirty[i]
    /\ count' = [count EXCEPT ![i] = 0]
    /\ heading' = [heading EXCEPT ![i] = RenderHeading(count'[i])]
    /\ dirty' = [dirty EXCEPT ![i] = FALSE]
    /\ UNCHANGED <<started, overflowChecks, status, mounted, path, resolved, history>>

\* the scheduled re-render: Home() runs again, use_signal returns the same signal
Render(i) ==
    /\ status[i] = "running" /\ mounted[i] /\ dirty[i]
    /\ heading' = [heading EXCEPT ![i] = RenderHeading(count[i])]
    /\ dirty' = [dirty EXCEPT ![i] = FALSE]
    /\ UNCHANGED <<started, overflowChecks, status, mounted, count, path, resolved, history>>

----------------------------------------------------------------------------
(* The application root and its router. *)

\* Router::<Route> handles a navigation request for path p
Navigate(i, p) ==
    /\ status[i] = "running"
    /\ path' = [path EXCEPT ![i] = p]
    /\ resolved' = [resolved EXCEPT ![i] = FromStr(p)]
    /\ IF FromStr(p) = RouteHome
       THEN IF mounted[i]
            THEN UNCHANGED <<component, history>>
            ELSE MountHome(i)
       ELSE \* no route matches: what is shown is up to the router
            \/ UNCHANGED <<component, history>>
            \/ UnmountHome(i)
    /\ UNCHANGED <<started, overflowChecks, status>>

\* the window or tab is closed: every component is dropped
Exit(i) ==
    /\ status[i] # "exited"
    /\ status' = [status EXCEPT ![i] = "exited"]
    /\ UnmountHome(i)
    /\ UNCHANGED <<started, overflowChecks, path, resolved>>

\* main() of a copy that was closed runs again: dioxus::launch(app) mounts the
\* router, which shows the route of "/"
Launch(i) ==
    /\ i \in started /\ status[i] = "exited"
    /\ status' = [status EXCEPT ![i] = "running"]
    /\ path' = [path EXCEPT ![i] = "/"]
    /\ resolved' = [resolved EXCEPT ![i] = FromStr("/")]
    /\ MountHome(i)
    /\ UNCHANGED <<started, overflowChecks>>

----------------------------------------------------------------------------
(* Specifications. *)

\* the copies in S are running, each a long-running instance whose net clicks
\* so far are b[i] (b[i] Up clicks when b[i] > 0, -b[i] Down clicks when
\* b[i] < 0), all of them rendered; the other copies were never started
StartedAt(S, b) ==
    /\ started = S
    /\ overflowChecks \in BOOLEAN
    /\ status = [i \in Instances |-> IF i \in S THEN "running" ELSE "exited"]
    /\ mounted = [i \in Instances |-> i \in S]
    /\ count = [i \in Instances |-> IF i \in S THEN b[i] ELSE 0]
    /\ dirty = [i \in Instances |-> FALSE]
    /\ heading = [i \in Instances |-> IF i \in S THEN RenderHeading(b[i]) ELSE <<>>]
    /\ path = [i \in Instances |-> "/"]
    /\ resolved = [i \in Instances |-> FromStr("/")]
    /\ base = [i \in Instances |-> IF i \in S THEN b[i] ELSE 0]
    /\ ups = [i \in Instances |-> 0]
    /\ downs = [i \in Instances |-> 0]
    /\ phase = [i \in Instances |-> IF i \in S /\ b[i] < 0 THEN "downs" ELSE "ups"]
    /\ remounted = [i \in Instances |-> FALSE]

\* every copy freshly launched
Init == StartedAt(Instances, [i \in Instances |-> 0])

\* counters a long run of clicks has brought near the ends of the i32 range
Starts == {0, I32Max - EdgeGap, I32Min + EdgeGap}

\* one copy running, fresh or after a long run of clicks
LongRunInit == \E b \in [{1} -> Starts] : StartedAt({1}, b)

Next ==
    \E i \in Instances :
        \/ ClickUp(i)
        \/ ClickDown(i)
        \/ Render(i)
        \/ \E p \in Paths : Navigate(i, p)
        \/ Exit(i)
        \/ Launch(i)

Spec == Init /\ [][Next]_vars

LongRunSpec == LongRunInit /\ [][Next]_vars

\* the event loop runs a scheduled re-render
Fairness == \A i \in Instances : WF_vars(Render(i))

FairSpec == LongRunSpec /\ Fairness

----------------------------------------------------------------------------
(* Vocabulary of the properties. *)

\* the step handled an "Up high!" click of instance i
UpClicked(i) == ups'[i] = ups[i] + 1

\* the step handled a "Down low!" click of instance i
DownClicked(i) == downs'[i] = downs[i] + 1

\* the step was a re-render of the mounted Home of instance i
Rerendered(i) == mounted[i] /\ mounted'[i] /\ dirty[i] /\ ~dirty'[i]

\* the number of Up clicks since mount minus the number of Down clicks is an
\* i32 (an integer outside the range is never the value of the counter)
NetInRange(i) ==
    LET d == ups[i] - downs[i]
    IN  /\ d > 0 => base[i] <= I32Max - d
        /\ d < 0 => base[i] >= I32Min - d

\* that difference, when it is in range
Net(i) == base[i] + (ups[i] - downs[i])

\* the number of Up clicks since mount is at most i32::MAX
UpsInRange(i) == base[i] <= I32Max - ups[i]

----------------------------------------------------------------------------
(* C1: after N "Up high!" clicks followed by M "Down low!" clicks on a     *)
(* freshly mounted Home, the re-rendered heading shows N - M.              *)

\* C1 as stated, for every N >= 0 and M >= 0
C1_ShownIsUpsMinusDowns ==
    \A i \in Instances :
        (mounted[i] /\ phase[i] # "mixed" /\ ~dirty[i])
            => (NetInRange(i) /\ Shown(i) = Net(i))

\* C1 amended: for N <= i32::MAX and N - M >= i32::MIN the heading shows N - M
C1_ShownIsUpsMinusDownsInRange ==
    \A i \in Instances :
        (mounted[i] /\ phase[i] # "mixed" /\ ~dirty[i]
            /\ UpsInRange(i) /\ NetInRange(i))
            => Shown(i) = Net(i)

\* the scenario of the specification: two Up clicks, one Down click, heading 1
C1_Witness ==
    \E i \in Instances :
        /\ mounted[i] /\ base[i] = 0 /\ ups[i] = 2 /\ downs[i] = 1
        /\ phase[i] = "downs" /\ ~dirty[i]
        /\ heading[i] = <<"High-Five counter: ", "1">>

----------------------------------------------------------------------------
(* C2: a mounted Home starts at 0 and shows 0, and stays so in every state *)
(* reached before a click has been handled.                                *)

C2_ZeroBeforeAnyClick ==
    \A i \in Instances :
        (mounted[i] /\ base[i] = 0 /\ ups[i] = 0 /\ downs[i] = 0)
            => /\ count[i] = 0
               /\ ~dirty[i]
               /\ heading[i] = <<"High-Five counter: ", "0">>
               /\ Shown(i) = 0

\* a relaunched instance that has handled navigation but no click yet
C2_Witness ==
    \E i \in Instances :
        /\ mounted[i] /\ remounted[i] /\ ups[i] = 0 /\ downs[i] = 0
        /\ resolved[i] = NoMatch /\ Shown(i) = 0

----------------------------------------------------------------------------
(* C3: the counter has no bounds: no click is rejected, clamped, wrapped   *)
(* or trapped because of the counter's magnitude.                          *)

\* C3 as stated: every Up click leaves a running instance with a greater
\* counter, every Down click one with a smaller counter
C3_NoClickClampedWrappedOrTrapped ==
    [][\A i \in Instances :
        /\ UpClicked(i) => (status'[i] = "running" /\ count'[i] > count[i])
        /\ DownClicked(i) => (status'[i] = "running" /\ count'[i] < count[i])]_vars

\* C3 amended: that holds of every click but an Up click at i32::MAX and a
\* Down click at i32::MIN; those panic and leave the counter (overflow checks
\* on) or wrap to the other end of the range (overflow checks off)
C3_OnlyTheI32RangeBounds ==
    [][\A i \in Instances :
        /\ UpClicked(i) =>
             IF count[i] < I32Max
             THEN status'[i] = "running" /\ count'[i] > count[i]
             ELSE \/ overflowChecks /\ status'[i] = "panicked" /\ count'[i] = count[i]
                  \/ ~overflowChecks /\ status'[i] = "running" /\ count'[i] = I32Min
        /\ DownClicked(i) =>
             IF count[i] > I32Min
             THEN status'[i] = "running" /\ count'[i] < count[i]
             ELSE \/ overflowChecks /\ status'[i] = "panicked" /\ count'[i] = count[i]
                  \/ ~overflowChecks /\ status'[i] = "running" /\ count'[i] = I32Max]_vars

\* a counter gone negative from 0 by Down clicks alone
C3_Witness ==
    \E i \in Instances :
        /\ mounted[i] /\ base[i] = 0 /\ ups[i] = 0 /\ downs[i] > 1
        /\ count[i] < -1 /\ ~dirty[i] /\ Shown(i) = count[i]

----------------------------------------------------------------------------
(* C4: the path "/" and only it resolves to Route::Home; any other path    *)
(* resolves to no route, and resolving it is an outcome, not a crash.      *)

----------------------------------------------------------------------------
(* C5: a handled click moves the counter one step from the value it had    *)
(* just before: Up to counter + 1, Down to counter - 1, and the re-render  *)
(* that follows shows the new value.                                       *)

\* C5 as stated, for every counter value the click starts from (the integer
\* counter + 1 is an i32 only below i32::MAX, counter - 1 only above i32::MIN)
C5_ClickIsOneStep ==
    [][\A i \in Instances :
        /\ UpClicked(i) =>
             (count[i] < I32Max /\ count'[i] = count[i] + 1 /\ dirty'[i])
        /\ DownClicked(i) =>
             (count[i] > I32Min /\ count'[i] = count[i] - 1 /\ dirty'[i])
        /\ Rerendered(i) => Shown(i)' = count[i]]_vars

\* C5 amended: for every starting value but i32::MAX (Up) and i32::MIN (Down)
C5_ClickIsOneStepInRange ==
    [][\A i \in Instances :
        /\ (UpClicked(i) /\ count[i] < I32Max) =>
             (count'[i] = count[i] + 1 /\ dirty'[i] /\ status'[i] = "running")
        /\ (DownClicked(i) /\ count[i] > I32Min) =>
             (count'[i] = count[i] - 1 /\ dirty'[i] /\ status'[i] = "running")
        /\ Rerendered(i) => Shown(i)' = count[i]]_vars

\* both kinds of click handled and the heading re-rendered after them
C5_Witness ==
    \E i \in Instances :
        /\ mounted[i] /\ ups[i] > 0 /\ downs[i] > 0 /\ ~dirty[i]
        /\ count[i] = base[i] + 1 /\ Shown(i) = count[i]

----------------------------------------------------------------------------
(* C6: while Home stays mounted only the two click handlers change the     *)
(* counter: a re-render, a navigation request and route resolution leave   *)
(* it as it is.                                                            *)

C6_OnlyClicksChangeCounter ==
    [][\A i \in Instances :
        (mounted[i] /\ mounted'[i] /\ ~UpClicked(i) /\ ~DownClicked(i))
            => count'[i] = count[i]]_vars

\* a counter moved by clicks, then re-rendered, then kept through a
\* navigation request that matched no route
C6_Witness ==
    \E i \in Instances :
        /\ mounted[i] /\ ups[i] + downs[i] > 0 /\ count[i] # base[i]
        /\ ~dirty[i] /\ Shown(i) = count[i] /\ resolved[i] = NoMatch

----------------------------------------------------------------------------
(* C7: handlers run to completion one at a time, every counter change is   *)
(* followed by a re-render: a heading that differs from the counter has a  *)
(* re-render pending, the heading catches up with the counter, and no      *)
(* click's step is lost or applied twice.                                  *)

\* the heading of a mounted Home differs from the counter only while a
\* re-render is pending
StaleOnlyWhileDirty ==
    \A i \in Instances : (mounted[i] /\ Shown(i) # count[i]) => dirty[i]

\* C7 as stated: every click's handler completes, applying its step once in
\* the counter's arithmetic and scheduling a re-render, and the heading
\* catches up
C7_EveryClickAppliedAndRendered ==
    /\ []StaleOnlyWhileDirty
    /\ [][\A i \in Instances :
            /\ UpClicked(i) =>
                 (status'[i] = "running" /\ dirty'[i]
                    /\ count'[i] = WrappingInc(count[i]))
            /\ DownClicked(i) =>
                 (status'[i] = "running" /\ dirty'[i]
                    /\ count'[i] = WrappingDec(count[i]))]_vars
    /\ \A i \in Instances :
         (mounted[i] /\ dirty[i]) ~> (~mounted[i] \/ Shown(i) = count[i])

\* the click that panics: overflow checks on, the counter at the end of its range
Overflowing(i, limit) == overflowChecks /\ count[i] = limit

\* C7 amended: that holds of every click but one that overflows the i32 in a
\* build with overflow checks; that handler panics, its step is not applied
\* and nothing is rendered afterwards
C7_EveryClickAppliedAndRenderedUnlessPanic ==
    /\ []StaleOnlyWhileDirty
    /\ [][\A i \in Instances :
            /\ (UpClicked(i) /\ ~Overflowing(i, I32Max)) =>
                 (status'[i] = "running" /\ dirty'[i]
                    /\ count'[i] = WrappingInc(count[i]))
            /\ (DownClicked(i) /\ ~Overflowing(i, I32Min)) =>
                 (status'[i] = "running" /\ dirty'[i]
                    /\ count'[i] = WrappingDec(count[i]))
            /\ (UpClicked(i) /\ Overflowing(i, I32Max)) =>
                 (status'[i] = "panicked" /\ count'[i] = count[i])
            /\ (DownClicked(i) /\ Overflowing(i, I32Min)) =>
                 (status'[i] = "panicked" /\ count'[i] = count[i])]_vars
    /\ \A i \in Instances :
         (mounted[i] /\ dirty[i])
            ~> (~mounted[i] \/ Shown(i) = count[i] \/ status[i] = "panicked")

\* two clicks handled before one re-render: the heading is two steps behind
C7_Witness ==
    \E i \in Instances :
        /\ mounted[i] /\ dirty[i] /\ ups[i] = 2 /\ downs[i] = 0
        /\ NetInRange(i) /\ count[i] = Net(i) /\ Shown(i) = base[i]

----------------------------------------------------------------------------
(* C8: each Home instance owns its counter: a click on one instance leaves *)
(* the counter and the heading of every other instance as they are.        *)

C8_ClickTouchesOneInstance ==
    [][\A i, j \in Instances :
        (i # j /\ (UpClicked(i) \/ DownClicked(i)))
            => (count'[j] = count[j] /\ heading'[j] = heading[j]
                  /\ dirty'[j] = dirty[j])]_vars

\* two mounted instances clicked apart: different counters, different headings
C8_Witness ==
    \E i, j \in Instances :
        /\ mounted[i] /\ mounted[j] /\ base[i] = base[j]
        /\ ups[i] > 0 /\ downs[j] > 0 /\ ~dirty[i] /\ ~dirty[j]
        /\ count[i] > count[j] /\ Shown(i) > Shown(j)

----------------------------------------------------------------------------
(* C9: the counter does not outlive the component: mounting Home again     *)
(* after an unmount gives counter 0 and heading 0, whatever the counter    *)
(* was before.                                                             *)

C9_MountStartsAtZero ==
    [][\A i \in Instances :
        (~mounted[i] /\ mounted'[i])
            => (count'[i] = 0 /\ ~dirty'[i] /\ Shown(i)' = 0)]_vars

\* a Home mounted in place of one that was dropped with a nonzero counter
C9_Witness ==
    \E i \in Instances :
        /\ mounted[i] /\ remounted[i] /\ count[i] = 0 /\ Shown(i) = 0
        /\ ups[i] = 0 /\ downs[i] = 0

----------------------------------------------------------------------------
(* C10: the counter depends on how many clicks of each kind were handled,  *)
(* not on their order: it is (Up clicks) - (Down clicks).                  *)

\* C10 as stated, after any sequence of clicks since mount
C10_CounterIsUpsMinusDowns ==
    \A i \in Instances :
        mounted[i] => (NetInRange(i) /\ count[i] = Net(i))

\* C10 amended: whenever (Up clicks) - (Down clicks) is in the i32 range
C10_CounterIsUpsMinusDownsInRange ==
    \A i \in Instances :
        (mounted[i] /\ NetInRange(i)) => count[i] = Net(i)

\* interleaved clicks (an Up after a Down) that cancel out
C10_Witness ==
    \E i \in Instances :
        /\ mounted[i] /\ phase[i] = "mixed" /\ ups[i] = downs[i] + 1
        /\ downs[i] > 0 /\ count[i] = base[i] + 1

====
